---- MODULE Spec2Model ----
(***************************************************************************)
(* Model of huak's command dispatcher, src/bin/huak/cli.rs.                *)
(*                                                                         *)
(* Strings whose content matters (the bash startup file, dependency and    *)
(* version tokens) are sequences of one-character strings.  Option<T> is a *)
(* sequence of length 0 (None) or 1 (Some(x)), so that an absent argument  *)
(* list <<>> differs from a present, empty one << <<>> >>.                 *)
(***************************************************************************)
EXTENDS Integers, Sequences, FiniteSets, TLC

VARIABLES
    home,        \* Option<String>: the HOME environment variable
    cwd,         \* Option<path>: the working directory when the invocation
                 \* starts, None when std::env::current_dir() fails
                 \* (directory deleted)
    bashrc,      \* Option<chars>: content of $HOME/.bashrc, None when missing
    fish_file,   \* Option<script>: $HOME/.config/fish/completions/huak.fish
    zsh_file,    \* Option<script>: /usr/local/share/zsh/site-functions/_huak
    prev,        \* history of the last two invocations: phase "installed"
                 \* after a successful bash install, "uninstalled" after a
                 \* successful bash uninstall that came right after it, with
                 \* the .bashrc from before that install
    cmd,         \* the parsed command line of the last invocation
    pc,          \* "idle" while no invocation is running (nothing of the
                 \* last one is kept but the files and the history),
                 \* "parsed" before Cli::run has run on cmd, "done" after the
                 \* command's arm has run (or argument parsing rejected the
                 \* command line, or a signal ended the process in the
                 \* arm), "no_cwd" when Cli::run returned at a
                 \* std::env::current_dir()? without invoking anything
    calls,       \* the external operations the last invocation invoked
    outcome,     \* result, standard output and files accessed by it
    faults       \* how many writes the environment has cut short so far

vars == <<home, cwd, bashrc, fish_file, zsh_file, prev, cmd, pc, calls, outcome,
          faults>>

fsvars == <<home, cwd, bashrc, fish_file, zsh_file, prev, faults>>

----------------------------------------------------------------------------
(* Bounds *)

MaxPieces == 3

MaxTrailingBlocks == 2

MaxTrailing == 2

MaxDeps == 2

MaxTokenLen == 5

\* Writes the environment cuts short over one behaviour
MaxFaults == 1

----------------------------------------------------------------------------
(* Option and Result *)

None == <<>>

Some(x) == <<x>>

Ok == [ok |-> TRUE]

Err(kind, msg) == [ok |-> FALSE, kind |-> kind, msg |-> msg]

----------------------------------------------------------------------------
(* str::replace: every non-overlapping match of a non-empty pattern, found *)
(* scanning left to right, is replaced.                                    *)

\* Searcher: the start of the leftmost match of pat in s, 0 when none.
find(s, pat) ==
    LET starts == {i \in 1..(Len(s) - Len(pat) + 1) :
                      SubSeq(s, i, i + Len(pat) - 1) = pat}
    IN  IF starts = {} THEN 0
        ELSE CHOOSE i \in starts : \A j \in starts : i <= j

RECURSIVE replace(_, _, _)
replace(s, from, to) ==
    LET i == find(s, from)
    IN  IF i = 0 THEN s
        ELSE SubSeq(s, 1, i - 1) \o to
                \o replace(SubSeq(s, i + Len(from), Len(s)), from, to)

Contains(s, pat) ==
    \E i \in 1..(Len(s) - Len(pat) + 1) : SubSeq(s, i, i + Len(pat) - 1) = pat

----------------------------------------------------------------------------
(* Shell Integration Manager *)

Shells == {"bash", "elvish", "fish", "powershell", "zsh"}

EvalLine ==
    <<"e", "v", "a", "l", " ", "\"", "$", "(", "h", "u", "a", "k", " ",
      "c", "o", "n", "f", "i", "g", " ", "c", "o", "m", "p", "l", "e", "t",
      "i", "o", "n", ")", "\"">>

BashrcPath == "$HOME/.bashrc"

FishPath == "$HOME/.config/fish/completions/huak.fish"

ZshPath == "/usr/local/share/zsh/site-functions/_huak"

\* clap_complete::generate(shell, cmd, "huak", out): the script of that
\* shell.  Its text is the library's; it is kept as two opaque units in
\* order, so that a write of it can stop before, inside or after it.
clap_complete_generate(shell) ==
    <<[script_for |-> shell, bin_name |-> "huak", part |-> "head"],
      [script_for |-> shell, bin_name |-> "huak", part |-> "rest"]>>

\* The environment's answers to the file calls of one handler:
\*   open: whether the open, create, read or remove call succeeds
\*         (permissions, missing directory);
\*   cut:  whether the write that follows is cut short (file size limit,
\*         full device);
\*   room: how many units a write cut short gets into the file;
\*   signal: whether the cut comes with a signal that ends the process
\*         (SIGXFSZ at its default disposition) instead of an error return.

\* Write::write_all(data): all of data, or the part that went in before the
\* failure.  A write that fits in the room there is does not fail.
write_all(data, io) ==
    IF io.cut /\ io.room < Len(data)
    THEN [ok |-> FALSE, killed |-> io.signal,
          written |-> SubSeq(data, 1, io.room)]
    ELSE [ok |-> TRUE, killed |-> FALSE, written |-> data]

\* The process ended by the signal of a cut write: no result is returned.
Killed == [ok |-> FALSE, kind |-> "killed", msg |-> "SIGXFSZ"]

\* clap_complete's generators write with
\* write_all(..).expect("Failed to write to generated file")
Panic == [ok |-> FALSE, kind |-> "panic",
          msg |-> "Failed to write to generated file"]

\* What the handler ends with after its write: err is what it makes of a
\* write error.
after_write(w, err) == IF w.ok THEN Ok ELSE IF w.killed THEN Killed ELSE err

\* Every function below returns the result, the new state of its target
\* file and the set of paths it accessed.

add_completion_bash(env_home, file, io) ==
    IF env_home = None
    THEN [result |-> Err("EnvVarError", "HOME"), file |-> file, touched |-> {}]
    ELSE IF file = None \/ ~io.open
    THEN [result |-> Err("IOError", BashrcPath), file |-> file,
          touched |-> {BashrcPath}]
    ELSE LET w == write_all(<<"\n">> \o EvalLine \o <<"\n">>, io)
         IN  [result |-> after_write(w, Err("IOError", BashrcPath)),
              file |-> Some(file[1] \o w.written),
              touched |-> {BashrcPath}]

\* File::create empties the target before generate writes into it.
generate_target_file(target_file, file, io) ==
    IF ~io.open
    THEN [result |-> Err("IOError", target_file), file |-> file,
          touched |-> {target_file}]
    ELSE LET w == write_all(clap_complete_generate("fish"), io)
         IN  [result |-> after_write(w, Panic),
              file |-> Some(w.written),
              touched |-> {target_file}]

add_completion_fish(env_home, file, io) ==
    IF env_home = None
    THEN [result |-> Err("EnvVarError", "HOME"), file |-> file, touched |-> {}]
    ELSE generate_target_file(FishPath, file, io)

add_completion_zsh(file, io) == generate_target_file(ZshPath, file, io)

\* std::fs::write empties the file when it opens it, then writes.
remove_completion_bash_no_leading_newline(env_home, file, io) ==
    IF env_home = None
    THEN [result |-> Err("EnvVarError", "HOME"), file |-> file, touched |-> {}]
    ELSE IF file = None \/ ~io.open
    THEN [result |-> Err("IOError", BashrcPath), file |-> file,
          touched |-> {BashrcPath}]
    ELSE LET new_content == replace(file[1], EvalLine \o <<"\n">>, <<>>)
             w == write_all(new_content, io)
         IN  [result |-> after_write(w, Err("IOError", BashrcPath)),
              file |-> Some(w.written),
              touched |-> {BashrcPath}]

remove_completion_bash(env_home, file, io) ==
    IF env_home = None
    THEN [result |-> Err("EnvVarError", "HOME"), file |-> file, touched |-> {}]
    ELSE IF file = None \/ ~io.open
    THEN [result |-> Err("IOError", BashrcPath), file |-> file,
          touched |-> {BashrcPath}]
    ELSE LET new_content == replace(file[1],
                                    <<"\n">> \o EvalLine \o <<"\n">>, <<>>)
             w == write_all(new_content, io)
         IN  [result |-> after_write(w, Err("IOError", BashrcPath)),
              file |-> Some(w.written),
              touched |-> {BashrcPath}]

remove_completion_fish(env_home, file, io) ==
    IF env_home = None
    THEN [result |-> Err("EnvVarError", "HOME"), file |-> file, touched |-> {}]
    ELSE IF file = None \/ ~io.open
    THEN [result |-> Err("IOError", FishPath), file |-> file,
          touched |-> {FishPath}]
    ELSE [result |-> Ok, file |-> None, touched |-> {FishPath}]

remove_completion_zsh(file, io) ==
    IF file = None \/ ~io.open
    THEN [result |-> Err("IOError", ZshPath), file |-> file,
          touched |-> {ZshPath}]
    ELSE [result |-> Ok, file |-> None, touched |-> {ZshPath}]

\* The file system as one record, for the dispatch below.
FileSystem == [home |-> home, bashrc |-> bashrc, fish |-> fish_file,
               zsh |-> zsh_file]

Effect(fs, result, touched, stdout) ==
    [result |-> result, fs |-> fs, touched |-> touched, stdout |-> stdout]

run_with_install(shell, fs, io) ==
    IF shell = None
    THEN Effect(fs, Err("HuakConfigurationError", "no shell provided"), {}, None)
    ELSE CASE shell[1] = "bash" ->
                LET r == add_completion_bash(fs.home, fs.bashrc, io)
                IN  Effect([fs EXCEPT !.bashrc = r.file], r.result, r.touched, None)
           [] shell[1] = "elvish" ->
                Effect(fs, Err("UnimplementedError", "elvish completion"), {}, None)
           [] shell[1] = "fish" ->
                LET r == add_completion_fish(fs.home, fs.fish, io)
                IN  Effect([fs EXCEPT !.fish = r.file], r.result, r.touched, None)
           [] shell[1] = "powershell" ->
                Effect(fs, Err("UnimplementedError", "powershell completion"),
                       {}, None)
           [] shell[1] = "zsh" ->
                LET r == add_completion_zsh(fs.zsh, io)
                IN  Effect([fs EXCEPT !.zsh = r.file], r.result, r.touched, None)
           [] OTHER ->
                Effect(fs, Err("HuakConfigurationError", "invalid shell"), {}, None)

run_with_uninstall(shell, fs, io) ==
    IF shell = None
    THEN Effect(fs, Err("HuakConfigurationError", "no shell provided"), {}, None)
    ELSE CASE shell[1] = "bash" ->
                LET r == remove_completion_bash(fs.home, fs.bashrc, io)
                IN  Effect([fs EXCEPT !.bashrc = r.file], r.result, r.touched, None)
           [] shell[1] = "elvish" ->
                Effect(fs, Err("UnimplementedError", "elvish completion"), {}, None)
           [] shell[1] = "fish" ->
                LET r == remove_completion_fish(fs.home, fs.fish, io)
                IN  Effect([fs EXCEPT !.fish = r.file], r.result, r.touched, None)
           [] shell[1] = "powershell" ->
                Effect(fs, Err("UnimplementedError", "Powershell completion"),
                       {}, None)
           [] shell[1] = "zsh" ->
                LET r == remove_completion_zsh(fs.zsh, io)
                IN  Effect([fs EXCEPT !.zsh = r.file], r.result, r.touched, None)
           [] OTHER ->
                Effect(fs, Err("HuakConfigurationError", "invalid shell"), {}, None)

generate_shell_completion_script == Some(clap_complete_generate("bash"))

\* Cli::run, the Commands::Completion arm
completion_no_shell_check(shell, install_flag, uninstall_flag, fs, io) ==
    IF install_flag THEN run_with_install(IF shell = None THEN Some("bash") ELSE shell,
                                     fs, io)
    ELSE IF uninstall_flag
    THEN run_with_uninstall(IF shell = None THEN Some("bash") ELSE shell,
                            fs, io)
    ELSE Effect(fs, Ok, {}, generate_shell_completion_script)

completion(shell, install_flag, uninstall_flag, fs, io) ==
    IF (install_flag \/ uninstall_flag) /\ shell = None
    THEN Effect(fs, Err("HuakConfigurationError", "no shell provided"), {}, None)
    ELSE IF install_flag THEN run_with_install(shell, fs, io)
    ELSE IF uninstall_flag THEN run_with_uninstall(shell, fs, io)
    ELSE Effect(fs, Ok, {}, generate_shell_completion_script)

----------------------------------------------------------------------------
(* Specifier Normalizer *)

\* impl FromStr for Dependency
Dependency_from_str(s) == replace(s, <<"@">>, <<"=", "=">>)

\* impl ToString for Dependency
Dependency_to_string(d) == d

Digits == <<"0", "1", "2", "3", "4", "5", "6", "7", "8", "9">>

IsDigit(c) == \E d \in 1..10 : Digits[d] = c

DigitValue(c) == (CHOOSE d \in 1..10 : Digits[d] = c) - 1

\* str::parse of a run of decimal digits
RECURSIVE ParseUInt(_)
ParseUInt(s) ==
    IF s = <<>> THEN 0
    ELSE 10 * ParseUInt(SubSeq(s, 1, Len(s) - 1)) + DigitValue(s[Len(s)])

\* Display of an unsigned integer
RECURSIVE UIntToString(_)
UIntToString(n) ==
    IF n < 10 THEN <<Digits[n + 1]>>
    ELSE UIntToString(n \div 10) \o <<Digits[(n % 10) + 1]>>

\* s.split('.')
RECURSIVE Split(_)
Split(s) ==
    LET i == find(s, <<".">>)
    IN  IF i = 0 THEN <<s>>
        ELSE <<SubSeq(s, 1, i - 1)>> \o Split(SubSeq(s, i + 1, Len(s)))

\* pep440_rs::Version::from_str on tokens made of digits, '.', a leading 'v'
\* and characters outside the version scheme: v?N(.N)* and nothing else.
\* Returns None on a parse error, Some(version) otherwise.
Version_from_str(s) ==
    LET body == IF s # <<>> /\ s[1] = "v" THEN Tail(s) ELSE s
        segs == Split(body)
    IN  IF \A k \in 1..Len(segs) :
              /\ segs[k] # <<>>
              /\ \A j \in 1..Len(segs[k]) : IsDigit(segs[k][j])
        THEN Some([release |-> [k \in 1..Len(segs) |-> ParseUInt(segs[k])]])
        ELSE None

\* Display for pep440_rs::Version (release segments only)
RECURSIVE JoinRelease(_)
JoinRelease(release) ==
    IF Len(release) = 1 THEN UIntToString(release[1])
    ELSE JoinRelease(SubSeq(release, 1, Len(release) - 1))
            \o <<".">> \o UIntToString(release[Len(release)])

Version_to_string(v) == JoinRelease(v.release)

FailedToParse == <<"f", "a", "i", "l", "e", "d", " ", "t", "o", " ", "p", "a", "r", "s", "e", " ", "v", "e", "r", "s", "i", "o", "n">>

UseMajorMinor == <<" ", "i", "s", " ", "i", "n", "v", "a", "l", "i", "d", ",", " ", "u", "s", "e", " ", "m", "a", "j", "o", "r", ".", "m", "i", "n", "o", "r">>

\* impl FromStr for PythonVersion
PythonVersion_from_str(s) ==
    LET version == Version_from_str(s)
    IN  IF version = None
        THEN Err("InternalError", FailedToParse)
        ELSE IF Len(version[1].release) > 2
        THEN Err("InternalError", s \o UseMajorMinor)
        ELSE [ok |-> TRUE, value |-> Version_to_string(version[1])]

----------------------------------------------------------------------------
(* Configuration Composer *)

\* OperationConfig { workspace_root, terminal_options, ..Default::default() }
OperationConfig(workspace_root, quiet) ==
    [workspace_root    |-> workspace_root,
     terminal_options  |-> [verbosity |-> IF quiet THEN "Quiet" ELSE "Normal"],
     installer_options |-> None,
     build_options     |-> None,
     clean_options     |-> None,
     format_options    |-> None,
     lint_options      |-> None,
     publish_options   |-> None,
     test_options      |-> None,
     workspace_options |-> None]

\* A call of the operations layer: ops::<op>(dependencies, group, &config)
Call(op, dependencies, group, config) ==
    [op |-> op, dependencies |-> dependencies, group |-> group,
     config |-> config]

activate(operation_config) ==
    <<Call("activate_venv", None, None, operation_config)>>

add_ignoring_group(dependencies, group, operation_config) ==
    LET deps == [i \in 1..Len(dependencies) |->
                    Dependency_to_string(dependencies[i])]
    IN  <<Call("add_project_dependencies", deps, None, operation_config)>>

add(dependencies, group, operation_config) ==
    LET deps == [i \in 1..Len(dependencies) |->
                    Dependency_to_string(dependencies[i])]
    IN  IF group # None
        THEN <<Call("add_project_optional_dependencies", deps, group[1],
                    operation_config)>>
        ELSE <<Call("add_project_dependencies", deps, None, operation_config)>>

build(operation_config) ==
    <<Call("build_project", None, None, operation_config)>>

clean(operation_config) ==
    <<Call("clean_project", None, None, operation_config)>>

fix(operation_config) ==
    <<Call("lint_project", None, None, operation_config)>>

fmt(operation_config) ==
    <<Call("format_project", None, None, operation_config)>>

init(app, lib, operation_config) ==
    IF app
    THEN <<Call("init_app_project", None, None, operation_config)>>
    ELSE <<Call("init_lib_project", None, None, operation_config)>>

install(groups, operation_config) ==
    IF groups # None
    THEN <<Call("install_project_optional_dependencies", None, groups[1],
                operation_config)>>
    ELSE <<Call("install_project_dependencies", None, None, operation_config)>>

lint(operation_config) ==
    <<Call("lint_project", None, None, operation_config)>>

new(app, lib, operation_config) ==
    IF app
    THEN <<Call("new_app_project", None, None, operation_config)>>
    ELSE <<Call("new_lib_project", None, None, operation_config)>>

publish(operation_config) ==
    <<Call("publish_project", None, None, operation_config)>>

\* python(): Python::List, and Python::Use { version } with version.0
python_list(operation_config) ==
    <<Call("list_python", None, None, operation_config)>>

python_use(version, operation_config) ==
    <<[op |-> "use_python", version |-> version, config |-> operation_config]>>

remove(dependencies, group, operation_config) ==
    IF group # None
    THEN <<Call("remove_project_optional_dependencies", dependencies,
                group[1], operation_config)>>
    ELSE <<Call("remove_project_dependencies", dependencies, None,
                operation_config)>>

\* command.join(" ")
RECURSIVE join(_)
join(words) ==
    IF words = <<>> THEN <<>>
    ELSE IF Len(words) = 1 THEN words[1]
    ELSE words[1] \o <<" ">> \o join(Tail(words))

run(command, operation_config) ==
    <<[op |-> "run_command_str", command |-> join(command),
       config |-> operation_config]>>

test(operation_config) ==
    <<Call("test_project", None, None, operation_config)>>

update(dependencies, groups, operation_config) ==
    IF groups # None
    THEN <<Call("update_project_optional_dependencies", dependencies,
                groups[1], operation_config)>>
    ELSE <<Call("update_project_dependencies", dependencies, None,
                operation_config)>>

version(operation_config) ==
    <<Call("display_project_version", None, None, operation_config)>>

\* Cli::run, Commands::Fix: the lint options handed to fix()
Fix_lint_options(trailing) ==
    [args |-> IF trailing # None THEN Some(Append(trailing[1], "--fix"))
              ELSE trailing,
     include_types |-> FALSE]

\* Cli::run, Commands::Fmt: the format options handed to fmt()
Fmt_format_options_no_else(check, trailing) ==
    [args |-> IF check /\ trailing # None
              THEN Some(Append(trailing[1], "--check"))
              ELSE trailing]

Fmt_format_options_if_absent(check, trailing) ==
    [args |-> IF check
              THEN IF trailing # None
                   THEN IF \E i \in 1..Len(trailing[1]) :
                              trailing[1][i] = "--check"
                        THEN trailing
                        ELSE Some(Append(trailing[1], "--check"))
                   ELSE Some(<<"--check">>)
              ELSE trailing]

Fmt_format_options(check, trailing) ==
    [args |-> IF check
              THEN IF trailing # None
                   THEN Some(Append(trailing[1], "--check"))
                   ELSE Some(<<"--check">>)
              ELSE trailing]

\* Cli::run, Commands::Lint: the lint options handed to lint()
Lint_lint_options_not_negated(fix_flag, no_types, trailing) ==
    [args |-> IF fix_flag /\ trailing # None
              THEN Some(Append(trailing[1], "--fix"))
              ELSE trailing,
     include_types |-> no_types]

Lint_lint_options(fix_flag, no_types, trailing) ==
    [args |-> IF fix_flag /\ trailing # None
              THEN Some(Append(trailing[1], "--fix"))
              ELSE trailing,
     include_types |-> ~no_types]

----------------------------------------------------------------------------
(* Startup files the model starts from: up to MaxPieces pieces, each a     *)
(* newline or the text of the eval line, so that the completion block, a   *)
(* part of it and text around it all occur.                                *)

Block == <<"\n">> \o EvalLine \o <<"\n">>

Pieces == {<<"\n">>, EvalLine}

RECURSIVE Concat(_)
Concat(ps) == IF ps = <<>> THEN <<>> ELSE Head(ps) \o Concat(Tail(ps))

StartupFiles ==
    {Concat(ps) : ps \in UNION {[1..n -> Pieces] : n \in 0..MaxPieces}}

\* How many completion blocks end the file: consecutive installs so far.
RECURSIVE TrailingBlocks(_)
TrailingBlocks(s) ==
    IF Len(s) >= Len(Block) /\ SubSeq(s, Len(s) - Len(Block) + 1, Len(s)) = Block
    THEN 1 + TrailingBlocks(SubSeq(s, 1, Len(s) - Len(Block)))
    ELSE 0

NoPrev == [phase |-> "none", before |-> None]

NoCommand == [name |-> "none"]

NoOutcome == [result |-> Ok, touched |-> {}, stdout |-> None]

\* std::env::current_dir()? at the top of Cli::run: the error it returns
CurrentDirError == Err("IOError", "current_dir")

\* The answers the environment gives to the file calls of one invocation
\* The longest write a handler can issue in the current state: the block
\* appended to ~/.bashrc, or ~/.bashrc written back.
LongestWrite ==
    IF bashrc # None /\ Len(bashrc[1]) > Len(Block)
    THEN Len(bashrc[1]) ELSE Len(Block)

\* A write cut short stops at any point before its end.
IOAnswers ==
    [open : BOOLEAN, cut : {FALSE}, room : {0}, signal : {FALSE}]
    \cup [open : {TRUE}, cut : {TRUE}, room : 0..(LongestWrite - 1),
          signal : BOOLEAN]

InitShell ==
    /\ home \in {None, Some("/home/user")}
    /\ cwd \in {None, Some("cwd")}
    /\ bashrc \in {None} \cup {Some(c) : c \in StartupFiles}
    /\ fish_file = None
    /\ zsh_file = None
    /\ prev = NoPrev
    /\ cmd = NoCommand
    /\ pc = "idle"
    /\ calls = <<>>
    /\ outcome = NoOutcome
    /\ faults = 0

\* Cli::run on a completion request.  A failed run that leaves a file
\* changed is one whose write was cut short: it counts as a fault.  Each
\* bash install makes ~/.bashrc longer, without limit: installs are followed
\* up to MaxTrailingBlocks blocks at the end of the file, so that an install
\* on a file that already ends in a block is among them.
Commands_Completion ==
    \E shell \in {None} \cup {Some(s) : s \in Shells},
       install_flag \in BOOLEAN, uninstall_flag \in BOOLEAN :
        /\ pc = "idle"
        /\ (shell = Some("bash") /\ install_flag /\ bashrc # None)
              => TrailingBlocks(bashrc[1]) < MaxTrailingBlocks
        /\ \E go \in
                IF cwd = None
                THEN {Effect(FileSystem, CurrentDirError, {}, None)}
                ELSE {completion(shell, install_flag, uninstall_flag,
                                 FileSystem, io) :
                         io \in {a \in IOAnswers : a.cut => faults < MaxFaults}} :
            /\ cmd' = [name |-> "completion", shell |-> shell,
                       install |-> install_flag, uninstall |-> uninstall_flag]
            /\ calls' = <<>>
            /\ outcome' = [result |-> go.result, touched |-> go.touched,
                           stdout |-> go.stdout]
            /\ bashrc' = go.fs.bashrc
            /\ fish_file' = go.fs.fish
            /\ zsh_file' = go.fs.zsh
            /\ prev' = IF shell = Some("bash") /\ go.result.ok /\ install_flag
                       THEN [phase |-> "installed", before |-> bashrc]
                       ELSE IF shell = Some("bash") /\ go.result.ok
                               /\ uninstall_flag /\ prev.phase = "installed"
                       THEN [phase |-> "uninstalled", before |-> prev.before]
                       ELSE NoPrev
            /\ pc' = IF cwd # None THEN "done" ELSE "no_cwd"
            /\ faults' = IF ~go.result.ok /\ go.fs # FileSystem
                          THEN faults + 1 ELSE faults
            /\ UNCHANGED <<home, cwd>>

\* Cli::run has returned and the process ends: the next invocation finds the
\* files as they were left, and nothing else.
Process_Exit ==
    /\ pc \in {"done", "no_cwd"}
    /\ pc' = "idle"
    /\ cmd' = NoCommand
    /\ calls' = <<>>
    /\ outcome' = NoOutcome
    /\ UNCHANGED fsvars

NextShell == Commands_Completion \/ Process_Exit

SpecShell == InitShell /\ [][NextShell]_vars

----------------------------------------------------------------------------
(* Command lines the model feeds to Cli::run *)

SeqsUpTo(S, n) == UNION {[1..k -> S] : k \in 0..n}

TrailingArgs == {"-x", "--check", "--fix"}

TrailingInputs == {None} \cup {Some(t) : t \in SeqsUpTo(TrailingArgs, MaxTrailing)}

RequestsAt == <<"r", "e", "q", "u", "e", "s", "t", "s", "@", "2", ".", "2", "8">>

DepTokens == {RequestsAt, <<"b">>, <<"a", "@", "@">>, <<"c", "=", "=", "1">>}

DepLists == SeqsUpTo(DepTokens, MaxDeps) \ {<<>>}

GroupInputs == {None, Some("dev"), Some("docs")}

VersionChars == {"0", "3", ".", "v", "x"}

VersionTokens == SeqsUpTo(VersionChars, MaxTokenLen)

RunWords == {<<"l", "s">>, <<"-", "l">>}

\* The command lines clap hands to Cli::run, as records of the raw tokens.
\* --app and --lib conflict; add and remove require a dependency.
CommandLines ==
    [name : {"activate", "python_list", "version"}, quiet : BOOLEAN]
    \cup [name : {"add", "remove"}, quiet : BOOLEAN, dependencies : DepLists,
          group : GroupInputs, trailing : TrailingInputs]
    \cup [name : {"update"}, quiet : BOOLEAN,
          dependencies : {None} \cup {Some(d) : d \in SeqsUpTo(DepTokens, MaxDeps)},
          group : GroupInputs, trailing : TrailingInputs]
    \cup [name : {"build", "fix", "publish", "test"}, quiet : BOOLEAN,
          trailing : TrailingInputs]
    \cup [name : {"clean"}, quiet : BOOLEAN, include_pyc : BOOLEAN,
          include_pycache : BOOLEAN]
    \cup [name : {"fmt"}, quiet : BOOLEAN, check : BOOLEAN,
          trailing : TrailingInputs]
    \cup {c \in [name : {"init"}, quiet : BOOLEAN, app : BOOLEAN, lib : BOOLEAN,
                 no_vcs : BOOLEAN] : ~(c.app /\ c.lib)}
    \cup {c \in [name : {"new"}, quiet : BOOLEAN, app : BOOLEAN, lib : BOOLEAN,
                 no_vcs : BOOLEAN, path : {"proj"}] : ~(c.app /\ c.lib)}
    \cup [name : {"install"}, quiet : BOOLEAN,
          groups : {None, Some(<<"dev">>), Some(<<"dev", "docs">>)},
          trailing : TrailingInputs]
    \cup [name : {"lint"}, quiet : BOOLEAN, fix : BOOLEAN, no_types : BOOLEAN,
          trailing : TrailingInputs]
    \cup [name : {"python_use"}, quiet : BOOLEAN, version : VersionTokens]
    \cup [name : {"run"}, quiet : BOOLEAN,
          command : SeqsUpTo(RunWords, MaxTrailing)]

\* find_workspace().unwrap_or(std::env::current_dir()?), when current_dir()
\* has returned the directory
workspace_root(found) == IF found THEN "workspace" ELSE cwd[1]

\* let mut operation_config = OperationConfig { .. } at the top of Cli::run
BaseConfig(found) == OperationConfig(workspace_root(found), cmd.quiet)

\* What an operation of the operations layer may return
OpResults == {Ok, Err("OperationError", "ops")}

InitRun ==
    /\ home = Some("/home/user")
    /\ cwd \in {None, Some("cwd")}
    /\ bashrc = Some(<<>>)
    /\ fish_file = None
    /\ zsh_file = None
    /\ prev = NoPrev
    /\ cmd \in CommandLines
    /\ pc = "parsed"
    /\ calls = <<>>
    /\ outcome = NoOutcome
    /\ faults = 0

\* The end of one invocation: the operations invoked and the result.
Dispatch(cs, r) ==
    /\ calls' = cs
    /\ outcome' = [result |-> r, touched |-> {}, stdout |-> None]
    /\ pc' = "done"
    /\ UNCHANGED <<cmd, fsvars>>

\* Cli::run returns the error of a std::env::current_dir()?, at its top or
\* in the Init arm: no operation is invoked.
NoCurrentDir ==
    /\ calls' = <<>>
    /\ outcome' = [result |-> CurrentDirError, touched |-> {}, stdout |-> None]
    /\ pc' = "no_cwd"
    /\ UNCHANGED <<cmd, fsvars>>

Commands_Activate ==
    /\ pc = "parsed" /\ cmd.name = "activate"
    /\ \E found \in BOOLEAN, r \in OpResults :
          IF cwd = None THEN NoCurrentDir ELSE
          Dispatch(activate(BaseConfig(found)), r)

Commands_Add ==
    /\ pc = "parsed" /\ cmd.name = "add"
    /\ \E found \in BOOLEAN, r \in OpResults :
          IF cwd = None THEN NoCurrentDir ELSE
          LET dependencies == [i \in 1..Len(cmd.dependencies) |->
                                  Dependency_from_str(cmd.dependencies[i])]
              config == [BaseConfig(found) EXCEPT
                            !.installer_options = Some([args |-> cmd.trailing])]
          IN  Dispatch(add(dependencies, cmd.group, config), r)

Commands_Build ==
    /\ pc = "parsed" /\ cmd.name = "build"
    /\ \E found \in BOOLEAN, r \in OpResults :
          IF cwd = None THEN NoCurrentDir ELSE
          LET config == [BaseConfig(found) EXCEPT
                            !.build_options = Some([args |-> cmd.trailing])]
          IN  Dispatch(build(config), r)

Commands_Clean ==
    /\ pc = "parsed" /\ cmd.name = "clean"
    /\ \E found \in BOOLEAN, r \in OpResults :
          IF cwd = None THEN NoCurrentDir ELSE
          LET options == [include_pycache |-> cmd.include_pycache,
                          include_compiled_bytecode |-> cmd.include_pyc]
              config == [BaseConfig(found) EXCEPT
                            !.clean_options = Some(options)]
          IN  Dispatch(clean(config), r)

Commands_Fix ==
    /\ pc = "parsed" /\ cmd.name = "fix"
    /\ \E found \in BOOLEAN, r \in OpResults :
          IF cwd = None THEN NoCurrentDir ELSE
          LET config == [BaseConfig(found) EXCEPT
                            !.lint_options = Some(Fix_lint_options(cmd.trailing))]
          IN  Dispatch(fix(config), r)

Commands_Fmt ==
    /\ pc = "parsed" /\ cmd.name = "fmt"
    /\ \E found \in BOOLEAN, r \in OpResults :
          IF cwd = None THEN NoCurrentDir ELSE
          LET config == [BaseConfig(found) EXCEPT
                            !.format_options =
                                Some(Fmt_format_options(cmd.check, cmd.trailing))]
          IN  Dispatch(fmt(config), r)

\* The arm calls std::env::current_dir()? again: `again` is whether the
\* directory is still there (another process may have removed it).
Commands_Init ==
    /\ pc = "parsed" /\ cmd.name = "init"
    /\ \E found \in BOOLEAN, again \in BOOLEAN, r \in OpResults :
          IF cwd = None \/ ~again THEN NoCurrentDir ELSE
          LET config == [BaseConfig(found) EXCEPT
                            !.workspace_root = cwd[1],
                            !.workspace_options =
                                Some([uses_git |-> ~cmd.no_vcs])]
          IN  Dispatch(init(cmd.app, cmd.lib, config), r)

Commands_Install ==
    /\ pc = "parsed" /\ cmd.name = "install"
    /\ \E found \in BOOLEAN, r \in OpResults :
          IF cwd = None THEN NoCurrentDir ELSE
          LET config == [BaseConfig(found) EXCEPT
                            !.installer_options = Some([args |-> cmd.trailing])]
          IN  Dispatch(install(cmd.groups, config), r)

Commands_Lint ==
    /\ pc = "parsed" /\ cmd.name = "lint"
    /\ \E found \in BOOLEAN, r \in OpResults :
          IF cwd = None THEN NoCurrentDir ELSE
          LET config == [BaseConfig(found) EXCEPT
                            !.lint_options =
                                Some(Lint_lint_options(cmd.fix, cmd.no_types,
                                                       cmd.trailing))]
          IN  Dispatch(lint(config), r)

Commands_New ==
    /\ pc = "parsed" /\ cmd.name = "new"
    /\ \E found \in BOOLEAN, r \in OpResults :
          IF cwd = None THEN NoCurrentDir ELSE
          LET config == [BaseConfig(found) EXCEPT
                            !.workspace_root = cmd.path,
                            !.workspace_options =
                                Some([uses_git |-> ~cmd.no_vcs])]
          IN  Dispatch(new(cmd.app, cmd.lib, config), r)

Commands_Publish ==
    /\ pc = "parsed" /\ cmd.name = "publish"
    /\ \E found \in BOOLEAN, r \in OpResults :
          IF cwd = None THEN NoCurrentDir ELSE
          LET config == [BaseConfig(found) EXCEPT
                            !.publish_options = Some([args |-> cmd.trailing])]
          IN  Dispatch(publish(config), r)

Commands_Python_List ==
    /\ pc = "parsed" /\ cmd.name = "python_list"
    /\ \E found \in BOOLEAN, r \in OpResults :
          IF cwd = None THEN NoCurrentDir ELSE
          Dispatch(python_list(BaseConfig(found)), r)

\* The version argument is parsed by PythonVersion::from_str before
\* Cli::run is called; a parse failure ends the invocation there, with no
\* operation invoked.
Commands_Python_Use ==
    /\ pc = "parsed" /\ cmd.name = "python_use"
    /\ \E found \in BOOLEAN, r \in OpResults :
          \E parsed \in {PythonVersion_from_str(cmd.version)} :
              IF ~parsed.ok THEN Dispatch(<<>>, parsed)
              ELSE IF cwd = None THEN NoCurrentDir
              ELSE Dispatch(python_use(parsed.value, BaseConfig(found)), r)

Commands_Remove ==
    /\ pc = "parsed" /\ cmd.name = "remove"
    /\ \E found \in BOOLEAN, r \in OpResults :
          IF cwd = None THEN NoCurrentDir ELSE
          LET config == [BaseConfig(found) EXCEPT
                            !.installer_options = Some([args |-> cmd.trailing])]
          IN  Dispatch(remove(cmd.dependencies, cmd.group, config), r)

Commands_Run ==
    /\ pc = "parsed" /\ cmd.name = "run"
    /\ \E found \in BOOLEAN, r \in OpResults :
          IF cwd = None THEN NoCurrentDir ELSE
          Dispatch(run(cmd.command, BaseConfig(found)), r)

Commands_Test ==
    /\ pc = "parsed" /\ cmd.name = "test"
    /\ \E found \in BOOLEAN, r \in OpResults :
          IF cwd = None THEN NoCurrentDir ELSE
          LET config == [BaseConfig(found) EXCEPT
                            !.test_options = Some([args |-> cmd.trailing])]
          IN  Dispatch(test(config), r)

Commands_Update ==
    /\ pc = "parsed" /\ cmd.name = "update"
    /\ \E found \in BOOLEAN, r \in OpResults :
          IF cwd = None THEN NoCurrentDir ELSE
          LET config == [BaseConfig(found) EXCEPT
                            !.installer_options = Some([args |-> cmd.trailing])]
          IN  Dispatch(update(cmd.dependencies, cmd.group, config), r)

Commands_Version ==
    /\ pc = "parsed" /\ cmd.name = "version"
    /\ \E found \in BOOLEAN, r \in OpResults :
          IF cwd = None THEN NoCurrentDir ELSE
          Dispatch(version(BaseConfig(found)), r)

Next ==
    \/ Commands_Activate
    \/ Commands_Add
    \/ Commands_Build
    \/ Commands_Clean
    \/ Commands_Fix
    \/ Commands_Fmt
    \/ Commands_Init
    \/ Commands_Install
    \/ Commands_Lint
    \/ Commands_New
    \/ Commands_Publish
    \/ Commands_Python_List
    \/ Commands_Python_Use
    \/ Commands_Remove
    \/ Commands_Run
    \/ Commands_Test
    \/ Commands_Update
    \/ Commands_Version

Spec == InitRun /\ [][Next]_vars

----------------------------------------------------------------------------
(* Properties                                                              *)
(*                                                                         *)
(* pc = "done" says that the working directory was there each time         *)
(* Cli::run asked for it, so that the arm of the command ran; with no      *)
(* working directory Cli::run returns the I/O error and invokes nothing    *)
(* (pc = "no_cwd").                                                        *)

BashUninstalled ==
    /\ cmd.name = "completion"
    /\ cmd.shell = Some("bash")
    /\ cmd.uninstall /\ ~cmd.install
    /\ outcome.result.ok

\* The file, followed by the newline an install writes first, has no block.
NoBlockBeforeInstall(file) == ~Contains(file[1] \o <<"\n">>, Block)

\* C1 as stated: a bash install followed immediately by a bash uninstall
\* leaves .bashrc with exactly its content from before the install, whatever
\* that content was.
C1_InstallUninstallRestoresAny ==
    prev.phase = "uninstalled" => bashrc = prev.before

\* C1 amended: a bash install that succeeds, followed immediately by a bash
\* uninstall that succeeds, leaves .bashrc with exactly its pre-install
\* content if, and only if, that content followed by a newline contains no
\* occurrence of the completion block.  prev.phase is "uninstalled" exactly
\* after such a pair; prev.before is the content from before the install.
C1_InstallUninstallRestores ==
    prev.phase = "uninstalled"
        => (bashrc = prev.before <=> NoBlockBeforeInstall(prev.before))

C1_Witness ==
    /\ prev.phase = "uninstalled"
    /\ BashUninstalled
    /\ bashrc = prev.before
    /\ Contains(bashrc[1], EvalLine)

\* The other half of C1 amended: the install was made on a file that held a
\* block already, and the uninstall removed that block too.
C1_BlockBeforeInstall ==
    /\ prev.phase = "uninstalled"
    /\ BashUninstalled
    /\ Contains(prev.before[1], Block)
    /\ bashrc # prev.before
    /\ ~Contains(bashrc[1], Block)

ArgList(trailing) == IF trailing = None THEN <<>> ELSE trailing[1]

LintArgs == calls[1].config.lint_options[1].args

\* C2: for the fix command, and for the lint command with its fix flag set,
\* the argument list handed to the lint operation is the trailing arguments
\* in order followed by "--fix", whether the trailing arguments are absent,
\* empty or non-empty.
C2_FixFlagAppended ==
    (pc = "done" /\ (cmd.name = "fix" \/ (cmd.name = "lint" /\ cmd.fix)))
        => /\ Len(calls) = 1
           /\ calls[1].op = "lint_project"
           /\ LintArgs = Some(ArgList(cmd.trailing) \o <<"--fix">>)

\* Every '@' replaced by "==", every other character kept.
AtToEq(s) ==
    Concat([i \in 1..Len(s) |-> IF s[i] = "@" THEN <<"=", "=">> ELSE <<s[i]>>])

\* C3: for add, remove and update, every dependency string handed to the
\* operation is the user's token with every '@' replaced by "==", so none
\* contains '@'.
C3_DependenciesNormalized ==
    (pc = "done" /\ cmd.name \in {"add", "remove", "update"})
        => LET raw == IF cmd.name = "update" THEN ArgList(cmd.dependencies)
                      ELSE cmd.dependencies
               handed == IF cmd.name = "update"
                         THEN ArgList(calls[1].dependencies)
                         ELSE calls[1].dependencies
           IN  /\ Len(handed) = Len(raw)
               /\ \A i \in 1..Len(raw) :
                     /\ handed[i] = AtToEq(raw[i])
                     /\ ~Contains(handed[i], <<"@">>)

GranularityExample == <<"3", ".", "1", "0", ".", "4">>

PythonUseDone == pc = "done" /\ cmd.name = "python_use"

\* The first two outcomes of version normalization.
VersionAccepted ==
    LET parsed == Version_from_str(cmd.version)
    IN  /\ (parsed # None /\ Len(parsed[1].release) <= 2)
              => /\ Len(calls) = 1
                 /\ calls[1].op = "use_python"
                 /\ calls[1].version = Version_to_string(parsed[1])
        /\ (parsed # None /\ Len(parsed[1].release) >= 3)
              => /\ calls = <<>>
                 /\ ~outcome.result.ok
                 /\ Contains(outcome.result.msg, cmd.version)

\* C4: a conforming token with one or two release segments is
\* re-serialized, one with three or more fails with the granularity error
\* naming the token, and a non-conforming token fails with an error of a
\* kind distinct from the granularity error's.
C4_ThreeOutcomesDistinctKinds ==
    PythonUseDone
        => /\ VersionAccepted
           /\ Version_from_str(cmd.version) = None
                 => /\ calls = <<>>
                    /\ ~outcome.result.ok
                    /\ outcome.result.kind
                          # PythonVersion_from_str(GranularityExample).kind

OptionalVariant ==
    [add    |-> "add_project_optional_dependencies",
     remove |-> "remove_project_optional_dependencies",
     update |-> "update_project_optional_dependencies"]

PrimaryVariant ==
    [add    |-> "add_project_dependencies",
     remove |-> "remove_project_dependencies",
     update |-> "update_project_dependencies"]

RequestsEq == <<"r", "e", "q", "u", "e", "s", "t", "s", "=", "=", "2", ".", "2", "8">>

\* Exactly one dependency operation was invoked: the optional-group variant
\* with the given group when a group is given and the primary variant
\* otherwise; add requests@2.28 --group dev hands ["requests==2.28"] and
\* group dev to the optional-group variant.
OneVariantInvoked ==
    /\ Len(calls) = 1
    /\ IF cmd.group # None
       THEN /\ calls[1].op = OptionalVariant[cmd.name]
            /\ calls[1].group = cmd.group[1]
       ELSE /\ calls[1].op = PrimaryVariant[cmd.name]
            /\ calls[1].group = None
    /\ (cmd.name = "add" /\ cmd.dependencies = <<RequestsAt>>
           /\ cmd.group = Some("dev"))
          => calls[1].dependencies = <<RequestsEq>>

\* C5 as stated: each invocation of add, remove or update invokes exactly
\* one dependency operation, never both variants and never neither.
C5_ExactlyOneVariantAlways ==
    (pc # "parsed" /\ cmd.name \in {"add", "remove", "update"})
        => OneVariantInvoked

\* C5 amended: an invocation of add, remove or update for which the working
\* directory can be determined invokes exactly one dependency operation;
\* one for which it cannot invokes neither and returns the I/O error of
\* std::env::current_dir().
C5_ExactlyOneVariant ==
    (pc # "parsed" /\ cmd.name \in {"add", "remove", "update"})
        => IF cwd # None
           THEN pc = "done" /\ OneVariantInvoked
           ELSE /\ pc = "no_cwd"
                /\ calls = <<>>
                /\ outcome.result = CurrentDirError

C5_Witness ==
    /\ pc = "done"
    /\ cmd.name = "add"
    /\ cmd.dependencies = <<RequestsAt>>
    /\ cmd.group = Some("dev")
    /\ calls[1].op = "add_project_optional_dependencies"

\* C6: fmt with check hands the format operation ["--check"] when the
\* trailing arguments are absent or empty and the trailing arguments followed
\* by "--check" otherwise; without check the trailing arguments are handed
\* over unchanged, absent staying absent.
C6_FmtCheckArgs ==
    (pc = "done" /\ cmd.name = "fmt")
        => /\ Len(calls) = 1
           /\ calls[1].op = "format_project"
           /\ calls[1].config.format_options # None
           /\ calls[1].config.format_options[1].args =
                 IF ~cmd.check THEN cmd.trailing
                 ELSE IF cmd.trailing = None \/ cmd.trailing = Some(<<>>)
                 THEN Some(<<"--check">>)
                 ELSE Some(cmd.trailing[1] \o <<"--check">>)

C6_Witness ==
    /\ pc = "done"
    /\ cmd.name = "fmt"
    /\ cmd.check
    /\ cmd.trailing = None
    /\ calls[1].config.format_options[1].args = Some(<<"--check">>)

\* C7 as stated: a completion request with the install or the uninstall
\* flag and no shell returns a configuration error, and no shell-integration
\* file is opened, read, written or deleted.
C7_NoShellConfigurationError ==
    [][(cmd'.name = "completion" /\ cmd'.shell = None
           /\ (cmd'.install \/ cmd'.uninstall))
          => /\ ~outcome'.result.ok
             /\ outcome'.result.kind = "HuakConfigurationError"
             /\ outcome'.touched = {}
             /\ UNCHANGED <<bashrc, fish_file, zsh_file>>]_vars

\* C7 amended: a completion request with the install or the uninstall flag
\* and no shell fails and accesses no shell-integration file: none is
\* opened, and all are left as they were.  The failure is the configuration
\* error when the working directory can be determined, and the I/O error of
\* std::env::current_dir() when it cannot.
C7_NoShellNoFileAccess ==
    [][(cmd'.name = "completion" /\ cmd'.shell = None
           /\ (cmd'.install \/ cmd'.uninstall))
          => /\ IF cwd # None
                THEN /\ pc' = "done"
                     /\ outcome'.result
                           = Err("HuakConfigurationError", "no shell provided")
                ELSE /\ pc' = "no_cwd"
                     /\ outcome'.result = CurrentDirError
             /\ outcome'.touched = {}
             /\ UNCHANGED <<bashrc, fish_file, zsh_file>>]_vars

C7_Witness ==
    /\ pc = "done"
    /\ cmd.name = "completion"
    /\ cmd.shell = None
    /\ cmd.uninstall /\ ~cmd.install
    /\ outcome.result = Err("HuakConfigurationError", "no shell provided")
    /\ bashrc # None /\ Contains(bashrc[1], Block)

\* C8: init and new default to the application template: with neither --app
\* nor --lib the application-project operation is invoked, and the
\* library-project operation only when --lib is given.
C8_AppIsDefault ==
    (pc = "done" /\ cmd.name \in {"init", "new"})
        => /\ Len(calls) = 1
           /\ (~cmd.app /\ ~cmd.lib)
                 => calls[1].op = IF cmd.name = "init" THEN "init_app_project"
                                  ELSE "new_app_project"
           /\ calls[1].op \in {"init_lib_project", "new_lib_project"}
                 => cmd.lib

\* C9: after a successful bash uninstall, whatever the startup file held
\* before and whatever installs and uninstalls came first, the file contains
\* no occurrence of the completion block.
C9_NoBlockAfterUninstall ==
    BashUninstalled => ~Contains(bashrc[1], Block)

TargetFile(shell) == IF shell = "fish" THEN fish_file ELSE zsh_file

\* C10: a successful fish or zsh install leaves in that shell's target file
\* the completion script generated for that same shell.
C10_InstallWritesOwnScript ==
    (/\ cmd.name = "completion"
     /\ cmd.shell \in {Some("fish"), Some("zsh")}
     /\ cmd.install
     /\ outcome.result.ok)
        => TargetFile(cmd.shell[1]) = Some(clap_complete_generate(cmd.shell[1]))

FmtArgs == calls[1].config.format_options[1].args

\* How many elements of the argument list are the flag.
Count(args, flag) == Cardinality({i \in 1..Len(args) : args[i] = flag})

FmtCheckDone == pc = "done" /\ cmd.name = "fmt" /\ cmd.check

\* C11 as stated: fmt with check appends "--check" only if the trailing
\* arguments do not already hold it, so the format argument list contains
\* "--check" exactly once.
C11_CheckFlagExactlyOnce ==
    FmtCheckDone => Count(ArgList(FmtArgs), "--check") = 1

\* C11 amended: fmt with check appends "--check" once whether or not the
\* trailing arguments already hold it: the format argument list contains
\* "--check" one more time than the trailing arguments do, and its last
\* element is "--check".
C11_CheckFlagAppendedOnce ==
    FmtCheckDone
        => /\ FmtArgs # None
           /\ Count(FmtArgs[1], "--check")
                 = Count(ArgList(cmd.trailing), "--check") + 1
           /\ Len(FmtArgs[1]) = Len(ArgList(cmd.trailing)) + 1
           /\ FmtArgs[1][Len(FmtArgs[1])] = "--check"

C11_Witness ==
    /\ FmtCheckDone
    /\ cmd.trailing = Some(<<"--check">>)
    /\ FmtArgs = Some(<<"--check", "--check">>)

LintOrFixDone == pc = "done" /\ cmd.name \in {"lint", "fix"}

IncludeTypes == calls[1].config.lint_options[1].include_types

\* C12 as stated: in every lint options record handed to the lint operation,
\* by the lint command or by the fix command, include-type-checking is true
\* unless the opt-out flag --no-types was given.
C12_TypesOnUnlessOptedOut ==
    LintOrFixDone
        => IncludeTypes = ~(cmd.name = "lint" /\ cmd.no_types)

\* C12 amended: in the record built by the lint command
\* include-type-checking is true unless --no-types was given; in the record
\* built by the fix command, which has no opt-out flag, it is always false;
\* in both the value does not depend on the trailing arguments or on the fix
\* flag.
C12_TypesPerCommand ==
    LintOrFixDone
        => /\ Len(calls) = 1
           /\ calls[1].op = "lint_project"
           /\ calls[1].config.lint_options # None
           /\ IncludeTypes = IF cmd.name = "lint" THEN ~cmd.no_types ELSE FALSE

C12_Witness ==
    /\ LintOrFixDone
    /\ cmd.name = "lint"
    /\ cmd.fix /\ ~cmd.no_types
    /\ cmd.trailing = Some(<<"-x">>)
    /\ LintArgs = Some(<<"-x", "--fix">>)
    /\ IncludeTypes

====
